---- MODULE Spec2Model ----
(***************************************************************************)
(* A model of transcribe-speech.js: the silence-aware chunking pipeline    *)
(* (probe, two silence-detection passes, split planning, concurrent        *)
(* per-segment extraction or time-based splitting, the sequential          *)
(* transcription loop that appends one entry per chunk, cleanup), and the  *)
(* pure planner calculateOptimalSplitPoints on its own.  Spec is the        *)
(* pipeline, LiveSpec the pipeline with fair event delivery, PlannerSpec   *)
(* one call of the planner on arguments drawn from small domains.          *)
(*                                                                         *)
(* Times are whole seconds.  The planner's thresholds maxChunkDuration*0.8 *)
(* and maxChunkDuration*0.5 are compared in tenths (10*d >= 8*max,         *)
(* 2*d >= max), which agrees with the double arithmetic of the source for  *)
(* every whole-second value used here.                                     *)
(***************************************************************************)
EXTENDS Integers, Sequences, FiniteSets, TLC

VARIABLES
    pc,             \* where transcribeAudio stands
    duration,       \* the audio's length in whole seconds
    testMode,       \* process.argv[4] === 'test'
    dirExists,      \* the chunks directory exists
    dirFiles,       \* indices NNN of the <base>_chunk_NNN.mp3 files in it
    outExists,      \* the output file exists
    output,         \* its entries, in file order
    scanPass,       \* which silence-detection command runs: "pass1", "pass2" or "none"
    silencePoints,  \* splitAtSilence: silencePoints
    audioDuration,  \* splitAtSilence: audioDuration
    splitPoints,    \* the planner's result, as splitAtSilence got it
    segments,       \* splitAtSpecificPoints: segments
    running,        \* indices of segments whose ffmpeg command still runs
    chunksAcc,      \* splitAtSpecificPoints: chunks (in push order)
    processedCount, \* splitAtSpecificPoints: processedCount
    byTimeRunning,  \* splitByTime's ffmpeg command still runs
    chunkPromise,   \* state of the promise of splitAudioIntoChunks
    chunkValue,     \* the value it resolved with
    chunks,         \* transcribeAudio: chunks
    inflight,       \* positions in chunks whose transcribeAudioFile call is pending
    appendLog,      \* entries handed to appendTranscriptionToFile, in call order
    callLog,        \* positions in chunks for which transcribeAudioFile was called
    callResults,    \* per settled call of the loop: did it return, was its entry saved
    strategyLog,    \* splitters invoked by splitAtSilence, in call order
    failure,        \* what the catch of transcribeAudio caught ("none" if nothing)
    durationKnown,  \* ffprobe's format.duration is a number (FALSE: it is 'N/A')
    posted,         \* uploads made: size the check saw, size of the file sent
    targetDuration, \* splitAtSilence: maxChunkDuration, as it was called (0 before)
    plSilence,      \* planner on its own: silencePoints argument
    plDuration,     \* planner on its own: totalDuration argument
    plTarget,       \* planner on its own: maxChunkDuration argument
    plResult,       \* planner on its own: returned splitPoints
    plDone          \* planner on its own: the call has returned

pipeVars == <<pc, duration, testMode, dirExists, dirFiles, outExists, output,
              scanPass, silencePoints, audioDuration, splitPoints, segments, running,
              chunksAcc, processedCount, byTimeRunning, chunkPromise, chunkValue,
              chunks, inflight, appendLog, callLog, callResults, strategyLog,
              failure, durationKnown, posted, targetDuration>>

planVars == <<plSilence, plDuration, plTarget, plResult, plDone>>

vars == <<pipeVars, planVars>>

----------------------------------------------------------------------------
(* Bounds of the model *)

\* most silence_start lines one scan pass reports
MaxPoints == 3

\* longest silencePoints argument of the planner on its own
MaxPlanLen == 3

\* a stale chunks directory holds the files 0 .. MaxStale-1
MaxStale == 5

(* Program constants *)

\* splitAudioIntoChunks(inputPath, chunkDuration = 30)
DefaultChunkDuration == 30

\* if (duration > 60)
ChunkThreshold == 60

\* endTime of the final segment: null
Null == -1

\* splitAtSilence(inputPath, outputDir, baseName, maxChunkDuration = 60)
SplitAtSilenceDefault == 60

\* stats.size > 25 * 1024 * 1024
MaxUploadBytes == 26214400

\* convertToMP3 encodes at '-b:a' 128k: 16000 bytes for each second of audio
Mp3BytesPerSecond == 16000

----------------------------------------------------------------------------
(* Input domains *)

\* ffprobe durations: two at most the threshold, two above it
Durations == {45, 60, 66, 96}

\* lengths of files whose header carries no duration, so that ffprobe reports 'N/A'
UnprobedDurations == {3600}

\* sizes statSync can report for a chunk file, in bytes
ChunkBytes == {1000000, 30000000}

\* the whole file of the short branch: its extension and its size in bytes
InputFiles == {[mp3 |-> TRUE, bytes |-> 1000000], [mp3 |-> TRUE, bytes |-> 30000000],
               [mp3 |-> FALSE, bytes |-> 20000000], [mp3 |-> FALSE, bytes |-> 30000000]}

\* how far one transcribeAudioFile call gets: it throws before the upload
\* (missing file, size, validation, conversion), the upload fails, or it returns
CallStages == {"local", "posted", "returned"}

\* onsets a scan pass can report
ScanTimes == {0, 24, 36, 48, 72}

\* arguments of the planner on its own
PlanTimes == {0, 12, 24, 30, 36, 48, 60, 66, 96}
PlanDurations == {0, 30, 66, 140}
PlanTargets == {0, 30, 60}

\* the worked example: silence points, duration, target
Example == [silence |-> <<10, 40, 65, 95, 130>>, duration |-> 140, target |-> 60]

SeqsUpTo(S, n) == UNION {[1..k -> S] : k \in 0..n}

Range(s) == {s[k] : k \in 1..Len(s)}

NonDecreasing(s) == \A k \in 1..(Len(s) - 1) : s[k] <= s[k + 1]

StrictlyIncreasing(s) == \A k \in 1..(Len(s) - 1) : s[k] < s[k + 1]

----------------------------------------------------------------------------
(* formatTimestamp: HH:MM:SS once hours > 0, else MM:SS *)

formatTimestamp(seconds) ==
    LET hours   == seconds \div 3600
        minutes == (seconds % 3600) \div 60
        secs    == seconds % 60
    IN  IF hours > 0 THEN <<hours, minutes, secs>> ELSE <<minutes, secs>>

\* chunk.endTime ? formatTimestamp(chunk.endTime) : 'end'
formatEnd(endTime) ==
    IF endTime # Null /\ endTime # 0 THEN formatTimestamp(endTime) ELSE <<"end">>

\* the seconds a formatted timestamp stands for
stampSeconds(stamp) ==
    IF Len(stamp) = 3 THEN stamp[1] * 3600 + stamp[2] * 60 + stamp[3]
    ELSE stamp[1] * 60 + stamp[2]

----------------------------------------------------------------------------
(* calculateOptimalSplitPoints *)

\* mutant: the scan goes on past a point in the preferred range and keeps the last
RECURSIVE forwardScan_later(_, _, _, _, _)
forwardScan_later(points, j, currentTime, maxChunkDuration, bestPoint) ==
    IF j > Len(points) THEN bestPoint
    ELSE LET candidatePoint == points[j]
             chunkDuration  == candidatePoint - currentTime
         IN  IF chunkDuration > maxChunkDuration
             THEN bestPoint
             ELSE IF 2 * chunkDuration >= maxChunkDuration
             THEN forwardScan_later(points, j + 1, currentTime, maxChunkDuration,
                                    candidatePoint)
             ELSE forwardScan_later(points, j + 1, currentTime, maxChunkDuration,
                                    bestPoint)

\* the inner for (let j = i; ...) loop: the value bestPoint has when it ends
RECURSIVE forwardScan(_, _, _, _, _)
forwardScan(points, j, currentTime, maxChunkDuration, bestPoint) ==
    IF j > Len(points) THEN bestPoint
    ELSE LET candidatePoint == points[j]
             chunkDuration  == candidatePoint - currentTime
         IN  IF chunkDuration <= maxChunkDuration /\ 2 * chunkDuration >= maxChunkDuration
             THEN candidatePoint
             ELSE IF chunkDuration > maxChunkDuration
             THEN bestPoint
             ELSE forwardScan(points, j + 1, currentTime, maxChunkDuration, bestPoint)

\* mutant: a region opens at half the target already
opensRegion_half(gap, maxChunkDuration) == 2 * gap >= maxChunkDuration

\* silencePoint - currentTime >= maxChunkDuration * 0.8
opensRegion(gap, maxChunkDuration) == 10 * gap >= 8 * maxChunkDuration

\* the outer for (let i = 0; ...) loop from index i on
RECURSIVE planFrom(_, _, _, _, _)
planFrom(points, i, currentTime, maxChunkDuration, acc) ==
    IF i > Len(points) THEN acc
    ELSE LET silencePoint == points[i]
         IN  IF opensRegion(silencePoint - currentTime, maxChunkDuration)
             THEN LET bestPoint == forwardScan(points, i, currentTime,
                                               maxChunkDuration, silencePoint)
                  IN  planFrom(points, i + 1, bestPoint, maxChunkDuration,
                               Append(acc, bestPoint))
             ELSE planFrom(points, i + 1, currentTime, maxChunkDuration, acc)

\* mutant: the opening test written with > instead of >=
RECURSIVE planFromStrict(_, _, _, _, _)
planFromStrict(points, i, currentTime, maxChunkDuration, acc) ==
    IF i > Len(points) THEN acc
    ELSE LET silencePoint == points[i]
         IN  IF 10 * (silencePoint - currentTime) > 8 * maxChunkDuration
             THEN LET bestPoint == forwardScan(points, i, currentTime,
                                               maxChunkDuration, silencePoint)
                  IN  planFromStrict(points, i + 1, bestPoint, maxChunkDuration,
                                     Append(acc, bestPoint))
             ELSE planFromStrict(points, i + 1, currentTime, maxChunkDuration, acc)

calculateOptimalSplitPoints_strict(points, totalDuration, maxChunkDuration) ==
    planFromStrict(points, 1, 0, maxChunkDuration, <<>>)

calculateOptimalSplitPoints(points, totalDuration, maxChunkDuration) ==
    planFrom(points, 1, 0, maxChunkDuration, <<>>)

----------------------------------------------------------------------------
(* The planner on its own: one call on arguments drawn from the domains *)

\* nothing of the chunking and of the loop has happened yet
PipeFresh ==
    /\ scanPass = "none"
    /\ silencePoints = <<>>
    /\ audioDuration = 0
    /\ splitPoints = <<>>
    /\ segments = <<>>
    /\ running = {}
    /\ chunksAcc = <<>>
    /\ processedCount = 0
    /\ byTimeRunning = FALSE
    /\ chunkPromise = "none"
    /\ chunkValue = <<>>
    /\ chunks = <<>>
    /\ inflight = {}
    /\ appendLog = <<>>
    /\ callLog = <<>>
    /\ callResults = <<>>
    /\ strategyLog = <<>>
    /\ failure = "none"
    /\ posted = {}
    /\ targetDuration = 0

PipeIdle ==
    /\ pc = "idle"
    /\ duration = 0
    /\ durationKnown = TRUE
    /\ testMode = FALSE
    /\ dirExists = FALSE
    /\ dirFiles = {}
    /\ outExists = FALSE
    /\ output = <<>>
    /\ PipeFresh

PlannerInit ==
    /\ PipeIdle
    /\ \/ /\ plSilence \in SeqsUpTo(PlanTimes, MaxPlanLen)
          /\ plDuration \in PlanDurations
          /\ plTarget \in PlanTargets
       \/ /\ plSilence = Example.silence
          /\ plDuration = Example.duration
          /\ plTarget = Example.target
    /\ plResult = <<>>
    /\ plDone = FALSE

PlannerCall ==
    /\ ~plDone
    /\ plResult' = calculateOptimalSplitPoints(plSilence, plDuration, plTarget)
    /\ plDone' = TRUE
    /\ UNCHANGED <<plSilence, plDuration, plTarget, pipeVars>>

PlannerNext == PlannerCall

PlannerSpec == PlannerInit /\ [][PlannerNext]_vars

----------------------------------------------------------------------------
(* Helpers of the pipeline *)

\* splitAtSpecificPoints: the segments array built from splitPoints
segmentsOf(points) ==
    IF Len(points) = 0 THEN <<>>
    ELSE [k \in 1..(Len(points) + 1) |->
            IF k <= Len(points)
            THEN [start |-> IF k = 1 THEN 0 ELSE points[k - 1], end |-> points[k]]
            ELSE [start |-> points[Len(points)], end |-> Null]]

\* the chunk pushed by the 'end' handler of segment number index (0-based)
segmentChunk(segs, index) ==
    [path |-> index, startTime |-> segs[index + 1].start, endTime |-> segs[index + 1].end]

\* files.sort(): the file indices in ascending order
RECURSIVE sortedFiles(_)
sortedFiles(files) ==
    IF files = {} THEN <<>>
    ELSE LET least == CHOOSE f \in files : \A g \in files : f <= g
         IN  <<least>> \o sortedFiles(files \ {least})

\* the files ffmpeg's segment muxer writes: one per started chunkDuration
segmentFiles(total, chunkDuration) ==
    0..(((total + chunkDuration - 1) \div chunkDuration) - 1)

\* splitByTime 'end' handler: the chunks built from the directory listing
chunksByTime(files, chunkDuration) ==
    LET listing == sortedFiles(files)
    IN  [k \in 1..Len(listing) |->
            [path |-> listing[k],
             startTime |-> (k - 1) * chunkDuration,
             endTime |-> (k - 1) * chunkDuration + chunkDuration]]

\* the header [start - end] of a chunk's entry
chunkHeader(chunk) == <<formatTimestamp(chunk.startTime), formatEnd(chunk.endTime)>>

\* chunkText, when the call returned the text of the chunk's file
textEntry(chunk) == [hdr |-> chunkHeader(chunk), kind |-> "text", of |-> chunk.path]

\* errorText, when the call threw
errorEntry(chunk) == [hdr |-> chunkHeader(chunk), kind |-> "ERROR", of |-> chunk.path]

\* what a previous run left in the output file
OldEntry == [hdr |-> <<>>, kind |-> "old", of |-> 0]

\* the raw text saveTranscriptionToFile writes for a short file
rawEntry == [hdr |-> <<>>, kind |-> "text", of |-> 0]

\* the process still runs its event handlers
Alive == pc \notin {"idle", "killed", "exit0", "exit1"}

\* transcribeAudio has returned or the process is gone
Terminal == pc \in {"done", "failed", "killed", "exit0", "exit1"}

----------------------------------------------------------------------------
(* The pipeline *)

Init ==
    /\ pc = "start"
    /\ \/ duration \in Durations /\ durationKnown = TRUE
       \/ duration \in UnprobedDurations /\ durationKnown = FALSE
    /\ testMode \in BOOLEAN
    /\ dirFiles \in {{}, 0..(MaxStale - 1)}
    /\ dirExists = (dirFiles # {})
    /\ outExists \in BOOLEAN
    /\ output = IF outExists THEN <<OldEntry>> ELSE <<>>
    /\ PipeFresh
    /\ plSilence = <<>>
    /\ plDuration = 0
    /\ plTarget = 0
    /\ plResult = <<>>
    /\ plDone = FALSE

\* transcribeAudio up to await getAudioDuration
Start ==
    /\ pc = "start"
    /\ \E exists \in BOOLEAN : pc' = IF exists THEN "probe" ELSE "exit1"
    /\ UNCHANGED <<duration, testMode, dirExists, dirFiles, outExists, output,
                   scanPass, silencePoints, audioDuration, splitPoints, segments,
                   running, chunksAcc, processedCount, byTimeRunning, chunkPromise,
                   chunkValue, chunks, inflight, appendLog, callLog, callResults, strategyLog,
                   failure, planVars, durationKnown, posted,
                   targetDuration>>

\* getAudioDuration settles
ProbeEnd ==
    /\ pc = "probe"
    /\ \E ok \in BOOLEAN :
          IF ok THEN pc' = "analyze" /\ failure' = failure
          ELSE pc' = "failed" /\ failure' = "probe"
    /\ UNCHANGED <<duration, testMode, dirExists, dirFiles, outExists, output,
                   scanPass, silencePoints, audioDuration, splitPoints, segments,
                   running, chunksAcc, processedCount, byTimeRunning, chunkPromise,
                   chunkValue, chunks, inflight, appendLog, callLog, callResults, strategyLog,
                   planVars, durationKnown, posted,
                   targetDuration>>

\* splitAudioIntoChunks(absPath): make the directory, start the first pass
splitAudioIntoChunks ==
    /\ dirExists' = TRUE
    /\ scanPass' = "pass1"
    /\ chunkPromise' = "pending"
    /\ pc' = "awaitChunks"
    /\ UNCHANGED <<inflight, callLog, failure>>

\* the short branch: transcribeAudioFile(absPath) on the whole file
transcribeDirectly ==
    /\ pc' = "single"
    /\ inflight' = {0}
    /\ callLog' = Append(callLog, 0)
    /\ UNCHANGED <<dirExists, scanPass, chunkPromise, failure>>

\* mutant: a file of exactly the threshold's length is chunked too
needsChunking_inclusive(known, seconds) == known /\ seconds >= ChunkThreshold

\* if (duration > 60), false as well when duration is not a number
needsChunking(known, seconds) == known /\ seconds > ChunkThreshold

\* analyzeAudioCharacteristics settles; then test mode, chunking or the short branch
AnalyzeEnd ==
    /\ pc = "analyze"
    /\ \E ok \in BOOLEAN :
          IF ~ok
          THEN /\ pc' = "failed"
               /\ failure' = "analyze"
               /\ UNCHANGED <<dirExists, scanPass, chunkPromise, inflight, callLog>>
          ELSE IF testMode
          THEN /\ pc' = "test"
               /\ UNCHANGED <<dirExists, scanPass, chunkPromise, inflight, callLog,
                              failure>>
          ELSE IF needsChunking(durationKnown, duration)
          THEN splitAudioIntoChunks
          ELSE transcribeDirectly
    /\ UNCHANGED <<duration, testMode, dirFiles, outExists, output, silencePoints,
                   audioDuration, splitPoints, segments, running, chunksAcc,
                   processedCount, byTimeRunning, chunkValue, chunks, appendLog,
                   callResults, strategyLog, planVars, durationKnown, posted,
                   targetDuration>>

\* testSilenceDetection resolves; process.exit(0)
TestEnd ==
    /\ pc = "test"
    /\ pc' = "exit0"
    /\ UNCHANGED <<duration, testMode, dirExists, dirFiles, outExists, output,
                   scanPass, silencePoints, audioDuration, splitPoints, segments,
                   running, chunksAcc, processedCount, byTimeRunning, chunkPromise,
                   chunkValue, chunks, inflight, appendLog, callLog, callResults, strategyLog,
                   failure, planVars, durationKnown, posted,
                   targetDuration>>

\* first pass (splitAudioIntoChunks): 'end' starts splitAtSilence and its own pass;
\* chunkDuration is passed on, so the default of splitAtSilence is not used.
\* The 'stderr' handler of this pass only pushes onto a local array nothing reads.
Pass1End ==
    /\ Alive
    /\ scanPass = "pass1"
    /\ scanPass' = "pass2"
    /\ silencePoints' = <<>>
    /\ audioDuration' = 0
    /\ targetDuration' = DefaultChunkDuration
    /\ UNCHANGED <<pc, duration, testMode, dirExists, dirFiles, outExists, output,
                   splitPoints, segments, running, chunksAcc, processedCount,
                   byTimeRunning, chunkPromise, chunkValue, chunks, inflight,
                   appendLog, callLog, callResults, strategyLog, failure, planVars, durationKnown, posted>>

\* mutant: the 'error' handler of a scan pass only logs
promiseOnScanError_swallowed(promise) == promise

\* a scan pass's 'error' handler: reject(err)
promiseOnScanError(promise) == IF promise = "pending" THEN "rejected" ELSE promise

\* first pass: 'error' rejects
Pass1Error ==
    /\ Alive
    /\ scanPass = "pass1"
    /\ scanPass' = "none"
    /\ chunkPromise' = promiseOnScanError(chunkPromise)
    /\ UNCHANGED <<pc, duration, testMode, dirExists, dirFiles, outExists, output,
                   silencePoints, audioDuration, splitPoints, segments, running,
                   chunksAcc, processedCount, byTimeRunning, chunkValue, chunks,
                   inflight, appendLog, callLog, callResults, strategyLog, failure, planVars, durationKnown, posted,
                   targetDuration>>

\* the Duration: HH:MM:SS.cc line: hours * 3600 + minutes * 60 + seconds
parseDuration(hours, minutes, seconds) == hours * 3600 + minutes * 60 + seconds

\* second pass (splitAtSilence), 'stderr': the Duration line
Pass2Duration ==
    /\ Alive
    /\ scanPass = "pass2"
    /\ audioDuration = 0
    /\ audioDuration' = parseDuration(duration \div 3600, (duration % 3600) \div 60,
                                      duration % 60)
    /\ UNCHANGED <<pc, duration, testMode, dirExists, dirFiles, outExists, output,
                   scanPass, silencePoints, splitPoints, segments, running,
                   chunksAcc, processedCount, byTimeRunning, chunkPromise,
                   chunkValue, chunks, inflight, appendLog, callLog, callResults, strategyLog,
                   failure, planVars, durationKnown, posted,
                   targetDuration>>

\* second pass, 'stderr': a silence_start line; onsets come in stream order
Pass2Silence ==
    /\ Alive
    /\ scanPass = "pass2"
    /\ Len(silencePoints) < MaxPoints
    /\ \E p \in ScanTimes :
          /\ p < duration
          /\ silencePoints # <<>> => silencePoints[Len(silencePoints)] <= p
          /\ silencePoints' = Append(silencePoints, p)
    /\ UNCHANGED <<pc, duration, testMode, dirExists, dirFiles, outExists, output,
                   scanPass, audioDuration, splitPoints, segments, running,
                   chunksAcc, processedCount, byTimeRunning, chunkPromise,
                   chunkValue, chunks, inflight, appendLog, callLog, callResults, strategyLog,
                   failure, planVars, durationKnown, posted,
                   targetDuration>>

\* mutant: the planned points are always taken, also when there are none
chooseStrategy_alwaysPoints(points) == "points"

\* if (splitPoints.length === 0) splitByTime else splitAtSpecificPoints
chooseStrategy(points) == IF Len(points) = 0 THEN "time" ELSE "points"

\* second pass, 'end': plan, then start the splitter
Pass2End ==
    /\ Alive
    /\ scanPass = "pass2"
    /\ scanPass' = "none"
    /\ LET planned == calculateOptimalSplitPoints(silencePoints, audioDuration,
                                                  targetDuration)
           strategy == chooseStrategy(planned)
       IN  /\ splitPoints' = planned
           /\ strategyLog' = Append(strategyLog, strategy)
           /\ IF strategy = "time"
              THEN /\ byTimeRunning' = TRUE
                   /\ UNCHANGED <<segments, running>>
              ELSE /\ segments' = segmentsOf(planned)
                   /\ running' = 0..(Len(segmentsOf(planned)) - 1)
                   /\ UNCHANGED byTimeRunning
    /\ UNCHANGED <<pc, duration, testMode, dirExists, dirFiles, outExists, output,
                   silencePoints, audioDuration, chunksAcc, processedCount,
                   chunkPromise, chunkValue, chunks, inflight, appendLog, callLog,
                   callResults, failure, planVars, durationKnown, posted,
                   targetDuration>>

\* second pass: 'error' rejects
Pass2Error ==
    /\ Alive
    /\ scanPass = "pass2"
    /\ scanPass' = "none"
    /\ chunkPromise' = promiseOnScanError(chunkPromise)
    /\ UNCHANGED <<pc, duration, testMode, dirExists, dirFiles, outExists, output,
                   silencePoints, audioDuration, splitPoints, segments, running,
                   chunksAcc, processedCount, byTimeRunning, chunkValue, chunks,
                   inflight, appendLog, callLog, callResults, strategyLog, failure, planVars, durationKnown, posted,
                   targetDuration>>

\* mutant: the promise resolves as soon as one segment is done
allProcessed_first(count, total) == count >= 1

\* mutant: the count is never found complete, the promise never resolves
allProcessed_never(count, total) == FALSE

\* if (processedCount === segments.length)
allProcessed(count, total) == count = total

\* splitAtSpecificPoints, 'end' of one segment's command: push, count, maybe resolve
ExtractEnd ==
    /\ Alive
    /\ \E index \in running :
          LET pushed == Append(chunksAcc, segmentChunk(segments, index))
          IN  /\ running' = running \ {index}
              /\ dirFiles' = dirFiles \cup {index}
              /\ chunksAcc' = pushed
              /\ processedCount' = processedCount + 1
              /\ IF allProcessed(processedCount + 1, Len(segments))
                    /\ chunkPromise = "pending"
                 THEN chunkPromise' = "resolved" /\ chunkValue' = pushed
                 ELSE UNCHANGED <<chunkPromise, chunkValue>>
    /\ UNCHANGED <<pc, duration, testMode, dirExists, outExists, output, scanPass,
                   silencePoints, audioDuration, splitPoints, segments,
                   byTimeRunning, chunks, inflight, appendLog, callLog, callResults, strategyLog,
                   failure, planVars, durationKnown, posted,
                   targetDuration>>

\* mutant: the 'error' handler only logs
promiseOnExtractError_ignored(state) == state

\* reject(new Error(`Error creating chunk ...`)): settles the promise if it is pending
promiseOnExtractError(state) == IF state = "pending" THEN "rejected" ELSE state

\* splitAtSpecificPoints, 'error' of one segment's command
ExtractError ==
    /\ Alive
    /\ \E index \in running : running' = running \ {index}
    /\ chunkPromise' = promiseOnExtractError(chunkPromise)
    /\ UNCHANGED <<pc, duration, testMode, dirExists, dirFiles, outExists, output,
                   scanPass, silencePoints, audioDuration, splitPoints, segments,
                   chunksAcc, processedCount, byTimeRunning, chunkValue, chunks,
                   inflight, appendLog, callLog, callResults, strategyLog, failure, planVars, durationKnown, posted,
                   targetDuration>>

\* splitByTime, 'end': list the directory, build the chunks, resolve
ByTimeEnd ==
    /\ Alive
    /\ byTimeRunning
    /\ byTimeRunning' = FALSE
    /\ LET files == dirFiles \cup segmentFiles(duration, targetDuration)
       IN  /\ dirFiles' = files
           /\ chunkValue' = chunksByTime(files, targetDuration)
    /\ chunkPromise' = "resolved"
    /\ UNCHANGED <<pc, duration, testMode, dirExists, outExists, output, scanPass,
                   silencePoints, audioDuration, splitPoints, segments, running,
                   chunksAcc, processedCount, chunks, inflight, appendLog, callLog,
                   callResults, strategyLog, failure, planVars, durationKnown, posted,
                   targetDuration>>

\* splitByTime, 'error': reject
ByTimeError ==
    /\ Alive
    /\ byTimeRunning
    /\ byTimeRunning' = FALSE
    /\ chunkPromise' = "rejected"
    /\ UNCHANGED <<pc, duration, testMode, dirExists, dirFiles, outExists, output,
                   scanPass, silencePoints, audioDuration, splitPoints, segments,
                   running, chunksAcc, processedCount, chunkValue, chunks, inflight,
                   appendLog, callLog, callResults, strategyLog, failure, planVars, durationKnown, posted,
                   targetDuration>>

\* mutant: every chunk's call is started at once, none awaited before the next
firstCalls_fanOut(n) == 1..n

\* the for loop entered with n chunks: the call of the first iteration, if any
firstCalls(n) == IF n > 0 THEN {1} ELSE {}

\* mutant: an existing output file is left in place
outputAfterUnlink_kept(entries) == entries

\* if (fs.existsSync(outputPath)) fs.unlinkSync(outputPath): nothing is left of it
outputAfterUnlink(entries) == <<>>

\* await splitAudioIntoChunks resolved: clear the output file, enter the loop
ChunksResolved ==
    /\ pc = "awaitChunks"
    /\ chunkPromise = "resolved"
    /\ chunks' = chunkValue
    /\ output' = outputAfterUnlink(output)
    /\ outExists' = (outputAfterUnlink(output) # <<>>)
    /\ inflight' = firstCalls(Len(chunkValue))
    /\ callLog' = callLog \o sortedFiles(firstCalls(Len(chunkValue)))
    /\ IF Len(chunkValue) = 0
       THEN pc' = "done" /\ dirExists' = FALSE /\ dirFiles' = {}
       ELSE pc' = "transcribing" /\ UNCHANGED <<dirExists, dirFiles>>
    /\ UNCHANGED <<duration, testMode, scanPass, silencePoints, audioDuration,
                   splitPoints, segments, running, chunksAcc, processedCount,
                   byTimeRunning, chunkPromise, chunkValue, appendLog, callResults,
                   strategyLog, failure, planVars, durationKnown, posted,
                   targetDuration>>

\* await splitAudioIntoChunks rejected: the catch of transcribeAudio logs it
ChunksRejected ==
    /\ pc = "awaitChunks"
    /\ chunkPromise = "rejected"
    /\ pc' = "failed"
    /\ failure' = "chunking"
    /\ UNCHANGED <<duration, testMode, dirExists, dirFiles, outExists, output,
                   scanPass, silencePoints, audioDuration, splitPoints, segments,
                   running, chunksAcc, processedCount, byTimeRunning, chunkPromise,
                   chunkValue, chunks, inflight, appendLog, callLog, callResults, strategyLog,
                   planVars, durationKnown, posted,
                   targetDuration>>

\* the size check of transcribeAudioFile, made on the file it was given
passesSizeCheck(bytes) == ~(bytes > MaxUploadBytes)

\* convertToMP3: an .mp3 file is sent as it is, any other is encoded again
sentBytes(file, seconds) ==
    IF file.mp3 THEN file.bytes ELSE Mp3BytesPerSecond * seconds

\* the call reached axios.post
didPost(file, stage) == passesSizeCheck(file.bytes) /\ stage # "local"

\* the call returned response.data.text
didReturn(file, stage) == passesSizeCheck(file.bytes) /\ stage = "returned"

\* uploads after one more call of transcribeAudioFile
postedAfter(file, stage, seconds) ==
    IF didPost(file, stage)
    THEN posted \cup {[checked |-> file.bytes, sent |-> sentBytes(file, seconds)]}
    ELSE posted

\* mutant: a failed call is only logged, nothing is appended for it
settledEntries_dropErrors(chunk, ok) == IF ok THEN <<textEntry(chunk)>> ELSE <<>>

\* try { chunkText } catch { errorText }: what one iteration hands to the append
settledEntries(chunk, ok) == IF ok THEN <<textEntry(chunk)>> ELSE <<errorEntry(chunk)>>

\* one iteration's await settles: append its entry, then start the next call or,
\* after the last chunk, remove the chunks directory
TranscribeSettle ==
    /\ pc = "transcribing"
    /\ \E pos \in inflight, bytes \in ChunkBytes, stage \in CallStages,
          appendOk \in BOOLEAN :
          LET file == [mp3 |-> TRUE, bytes |-> bytes]
              ok == didReturn(file, stage)
              entries == settledEntries(chunks[pos], ok)
          IN  /\ appendLog' = appendLog \o entries
              /\ posted' = postedAfter(file, stage, duration)
              /\ callResults' = Append(callResults, [ok |-> ok, saved |-> appendOk])
              /\ IF appendOk /\ entries # <<>>
                 THEN outExists' = TRUE /\ output' = output \o entries
                 ELSE UNCHANGED <<outExists, output>>
              /\ IF pos < Len(chunks)
                 THEN /\ inflight' = (inflight \ {pos}) \cup {pos + 1}
                      /\ callLog' = Append(callLog, pos + 1)
                      /\ UNCHANGED <<pc, dirExists, dirFiles>>
                 ELSE /\ inflight' = inflight \ {pos}
                      /\ pc' = "done"
                      /\ dirExists' = FALSE
                      /\ dirFiles' = {}
                      /\ UNCHANGED callLog
    /\ UNCHANGED <<duration, testMode, scanPass, silencePoints, audioDuration,
                   splitPoints, segments, running, chunksAcc, processedCount,
                   byTimeRunning, chunkPromise, chunkValue, chunks, strategyLog,
                   failure, planVars, durationKnown, targetDuration>>

\* the short branch's await settles: save the raw text, or land in the catch
SingleSettle ==
    /\ pc = "single"
    /\ inflight' = {}
    /\ \E file \in InputFiles, stage \in CallStages, saveOk \in BOOLEAN :
          /\ posted' = postedAfter(file, stage, duration)
          /\ IF didReturn(file, stage)
             THEN /\ pc' = "done"
                  /\ failure' = failure
                  /\ IF saveOk
                     THEN outExists' = TRUE /\ output' = <<rawEntry>>
                     ELSE UNCHANGED <<outExists, output>>
             ELSE /\ pc' = "failed"
                  /\ failure' = "transcribe"
                  /\ UNCHANGED <<outExists, output>>
    /\ UNCHANGED <<duration, testMode, dirExists, dirFiles, scanPass, silencePoints,
                   audioDuration, splitPoints, segments, running, chunksAcc,
                   processedCount, byTimeRunning, chunkPromise, chunkValue, chunks,
                   appendLog, callLog, callResults, strategyLog, planVars,
                   durationKnown, targetDuration>>

\* the process is interrupted: whatever is in flight is abandoned
Interrupt ==
    /\ pc # "idle"
    /\ ~Terminal
    /\ pc' = "killed"
    /\ UNCHANGED <<duration, testMode, dirExists, dirFiles, outExists, output,
                   scanPass, silencePoints, audioDuration, splitPoints, segments,
                   running, chunksAcc, processedCount, byTimeRunning, chunkPromise,
                   chunkValue, chunks, inflight, appendLog, callLog, callResults, strategyLog,
                   failure, planVars, durationKnown, posted,
                   targetDuration>>

Next ==
    \/ Start
    \/ ProbeEnd
    \/ AnalyzeEnd
    \/ TestEnd
    \/ Pass1End
    \/ Pass1Error
    \/ Pass2Duration
    \/ Pass2Silence
    \/ Pass2End
    \/ Pass2Error
    \/ ExtractEnd
    \/ ExtractError
    \/ ByTimeEnd
    \/ ByTimeError
    \/ ChunksResolved
    \/ ChunksRejected
    \/ TranscribeSettle
    \/ SingleSettle
    \/ Interrupt

Spec == Init /\ [][Next]_vars

\* every step but the interrupt: the events of the external operations (ffprobe,
\* the ffmpeg commands, the transcription request) and the continuations they wake
Progress ==
    \/ Start
    \/ ProbeEnd
    \/ AnalyzeEnd
    \/ TestEnd
    \/ Pass1End
    \/ Pass1Error
    \/ Pass2Duration
    \/ Pass2Silence
    \/ Pass2End
    \/ Pass2Error
    \/ ExtractEnd
    \/ ExtractError
    \/ ByTimeEnd
    \/ ByTimeError
    \/ ChunksResolved
    \/ ChunksRejected
    \/ TranscribeSettle
    \/ SingleSettle

\* runs that start with an empty chunks directory: stale chunk files only make
\* the list of splitByTime longer, they add no step of another kind
LiveInit == Init /\ dirFiles = {}

\* the pipeline when every started operation eventually emits 'end' or 'error'
\* and the event loop runs every continuation that is ready
LiveSpec == LiveInit /\ [][Next]_vars /\ WF_vars(Progress)

----------------------------------------------------------------------------
(* Properties of the extraction and of the loop, checked under Spec *)

\* the run took the long branch and entered the loop over chunks
MultiChunk == chunks # <<>>

\* a chunk list in segment-index order: contiguous from 0, open-ended at the end
InSegmentOrder(list) ==
    /\ list[1].startTime = 0
    /\ \A k \in 1..(Len(list) - 1) : list[k].endTime = list[k + 1].startTime
    /\ list[Len(list)].endTime = Null

\* some segment's extraction command has emitted 'error'
ExtractFailed ==
    segments # <<>> /\ processedCount + Cardinality(running) < Len(segments)

\* what the output file held when the run began
OutputUntouched == output = IF outExists THEN <<OldEntry>> ELSE <<>>

\* C1: whatever order the extraction commands complete in, the chunk list that
\* splitAtSpecificPoints resolves with is in segment-index order: the first chunk
\* starts at 0, each chunk ends where the next starts, the last has endTime null.
C1_ResolvedChunksInSegmentOrder ==
    (chunkPromise = "resolved" /\ strategyLog = <<"points">>)
        => InSegmentOrder(chunkValue)

\* C2: in every state of a multi-chunk run, an interrupted one included, the
\* entries in the output are in strictly increasing order of chunk start time.
C2_OutputInStartOrder ==
    MultiChunk =>
        \A k \in 1..(Len(output) - 1) :
            stampSeconds(output[k].hdr[1]) < stampSeconds(output[k + 1].hdr[1])

\* C3: at most one transcription call is in flight; calls are made for chunk 1, 2,
\* ... in turn, and when the call for a chunk is started every earlier chunk's
\* call has settled and its entry (text or error marker) was handed to the append.
C3_SequentialTranscription ==
    /\ Cardinality(inflight) <= 1
    /\ MultiChunk =>
        /\ callLog = [k \in 1..Len(callLog) |-> k]
        /\ inflight \subseteq {Len(callLog)}
        /\ Len(appendLog) = Len(callLog) - Cardinality(inflight)
        /\ \A k \in 1..Len(appendLog) :
              /\ appendLog[k].of = chunks[k].path
              /\ appendLog[k].kind \in {"text", "ERROR"}

\* C3 witness: the second chunk's call is in flight after the first one failed
\* and its error entry was handed to the append
C3_Witness ==
    /\ pc = "transcribing"
    /\ inflight = {2}
    /\ Len(appendLog) = 1
    /\ appendLog[1].kind = "ERROR"

\* C4: a finished multi-chunk run of N chunks has handed exactly N entries to the
\* append, in chunk order, whichever calls failed: a failed call's entry is the
\* chunk's header with the ERROR text, a returned call's entry the header with the
\* chunk's text; and with every append saved the output file holds those N.
C4_OneEntryPerChunk ==
    (pc = "done" /\ MultiChunk) =>
        /\ Len(callResults) = Len(chunks)
        /\ Len(appendLog) = Len(chunks)
        /\ \A k \in 1..Len(chunks) :
              appendLog[k] = IF callResults[k].ok THEN textEntry(chunks[k])
                             ELSE errorEntry(chunks[k])
        /\ (\A k \in 1..Len(chunks) : callResults[k].saved) => output = appendLog

\* C4 witness: three chunks, the second call failed, all three entries saved
C4_Witness ==
    /\ pc = "done"
    /\ Len(chunks) = 3
    /\ Len(output) = 3
    /\ output[1].kind = "text"
    /\ output[2].kind = "ERROR"
    /\ output[3].kind = "text"
    /\ callResults[2].ok = FALSE

\* C5 as stated: a failed extraction of one segment does not abort the run, and a
\* finished run's output holds an entry for every segment.
C5_ExtractionFailureKeepsRun ==
    ExtractFailed =>
        /\ pc # "failed"
        /\ pc = "done" => Len(output) = Len(segments)

\* C5 as amended: a failed extraction of one segment rejects the chunking promise
\* for good, whatever the other segments' commands do afterwards: the run never
\* enters the loop, no transcription call is made, nothing is handed to the append
\* and the output file stays as it was.
C5_ExtractionFailureAborts ==
    ExtractFailed =>
        /\ chunkPromise = "rejected"
        /\ pc \in {"awaitChunks", "failed", "killed"}
        /\ chunks = <<>>
        /\ callLog = <<>>
        /\ appendLog = <<>>
        /\ OutputUntouched

\* C5 witness: one of three extractions failed, the other two completed, and the
\* run ended in the catch of transcribeAudio
C5_Witness ==
    /\ ExtractFailed
    /\ Len(segments) = 3
    /\ processedCount = 2
    /\ running = {}
    /\ pc = "failed"
    /\ failure = "chunking"

\* C9: once the second pass has ended, exactly one splitter has been invoked:
\* splitByTime if and only if the planner returned no split point, otherwise
\* splitAtSpecificPoints on the planned points.
C9_ExactlyOneStrategy ==
    /\ Len(strategyLog) <= 1
    /\ (scanPass = "none" /\ chunkPromise \in {"pending", "resolved"})
          => Len(strategyLog) = 1
    /\ strategyLog # <<>> =>
          /\ strategyLog[1] = "time" <=> splitPoints = <<>>
          /\ strategyLog[1] = "time" => segments = <<>>
          /\ strategyLog[1] = "points" =>
                ~byTimeRunning /\ segments = segmentsOf(splitPoints)

\* C9 witness: two planned points, split at them, all three segments extracted
C9_Witness ==
    /\ strategyLog = <<"points">>
    /\ Len(splitPoints) = 2
    /\ chunkPromise = "resolved"
    /\ Len(chunkValue) = 3

\* C10: when the second pass ends with no silence point, the plan is empty, the
\* promise is not rejected for it, splitByTime is the splitter invoked, it yields
\* at least one chunk, and a finished run has handed one entry per chunk to the
\* append.
C10_ZeroSilencePointsIsValid ==
    (strategyLog # <<>> /\ silencePoints = <<>>) =>
        /\ splitPoints = <<>>
        /\ strategyLog = <<"time">>
        /\ byTimeRunning => chunkPromise = "pending"
        /\ chunkPromise = "resolved" => Len(chunkValue) >= 1
        /\ pc = "done" => (Len(chunks) >= 1 /\ Len(appendLog) = Len(chunks))

\* C10 witness: no silence point, a 96 s file, a finished run with four entries
C10_Witness ==
    /\ silencePoints = <<>>
    /\ strategyLog = <<"time">>
    /\ duration = 96
    /\ pc = "done"
    /\ Len(output) = 4

----------------------------------------------------------------------------
(* Properties of the planner, checked under PlannerSpec *)

\* the cut points splitAtSilence ends up with: the plan, or, for an empty plan,
\* the boundaries of the files splitByTime's segment muxer writes
cutsUsed(plan, total, chunkDuration) ==
    IF plan # <<>> THEN plan
    ELSE [k \in 1..(Cardinality(segmentFiles(total, chunkDuration)) - 1) |->
            k * chunkDuration]

\* the lengths of the segments the cuts induce on [0, total]
segmentLengths(cuts, total) ==
    LET marks == <<0>> \o cuts \o <<total>>
    IN  [k \in 1..(Len(marks) - 1) |-> marks[k + 1] - marks[k]]

\* C6: for non-decreasing silence points and a positive target, every segment the
\* cuts in use induce, the first from 0 and the last up to the duration included,
\* is at most the target long.
C6_NoChunkExceedsTarget ==
    (plDone /\ NonDecreasing(plSilence) /\ plTarget > 0) =>
        \A len \in Range(segmentLengths(cutsUsed(plResult, plDuration, plTarget),
                                        plDuration)) :
            len <= plTarget

RECURSIVE specForwardScan(_, _, _, _)
specForwardScan(points, j, cursor, target) ==
    IF j > Len(points) THEN 0
    ELSE IF 2 * (points[j] - cursor) >= target /\ points[j] - cursor <= target THEN j
    ELSE IF points[j] - cursor > target THEN 0
    ELSE specForwardScan(points, j + 1, cursor, target)

\* the planner as specified, steps 2 to 6: walk from position pos; a point at
\* least 0.8*target past the cursor opens a region; commit the scan's choice, or
\* the opening point; go on from the position after the committed point
RECURSIVE specWalk(_, _, _, _, _)
specWalk(points, pos, cursor, target, cuts) ==
    IF pos > Len(points) THEN cuts
    ELSE IF 10 * (points[pos] - cursor) >= 8 * target
    THEN LET found  == specForwardScan(points, pos, cursor, target)
             chosen == IF found = 0 THEN pos ELSE found
         IN  specWalk(points, chosen + 1, points[chosen], target,
                      Append(cuts, points[chosen]))
    ELSE specWalk(points, pos + 1, cursor, target, cuts)

\* C8: for every non-decreasing silence-point sequence the planner returns what
\* the specified algorithm returns, and on the worked example <<65, 130>>.
C8_MatchesSpecifiedPlanner ==
    (plDone /\ NonDecreasing(plSilence)) =>
        /\ plResult = specWalk(plSilence, 1, 0, plTarget, <<>>)
        /\ (plSilence = Example.silence /\ plTarget = Example.target)
              => plResult = <<65, 130>>

\* C8 witness: the worked example has been planned
C8_Witness ==
    /\ plDone
    /\ plSilence = Example.silence
    /\ plDuration = Example.duration
    /\ plTarget = Example.target
    /\ plResult = <<65, 130>>

----------------------------------------------------------------------------
(* Properties of the two branches of transcribeAudio, checked under Spec *)

\* the audio's length is known and at most the threshold
ShortAudio == durationKnown /\ duration <= ChunkThreshold

\* C11: for audio of at most the threshold's length no scan pass runs, no
\* splitter is chosen, no segment is extracted and nothing is appended; once the
\* run is in the short branch exactly one transcription call was made, on the
\* whole file, and what the run saves is that call's raw text, without a header
C11_ShortAudioOneRawCall ==
    ShortAudio =>
        /\ scanPass = "none"
        /\ chunkPromise = "none"
        /\ strategyLog = <<>>
        /\ segments = <<>>
        /\ running = {}
        /\ ~byTimeRunning
        /\ chunksAcc = <<>>
        /\ appendLog = <<>>
        /\ callLog \in {<<>>, <<0>>}
        /\ pc \in {"single", "done"} => callLog = <<0>>
        /\ output \in {<<>>, <<OldEntry>>, <<rawEntry>>}
        /\ output = <<rawEntry>> => pc = "done" /\ rawEntry.hdr = <<>>

C11_Witness ==
    /\ pc = "done"
    /\ durationKnown
    /\ duration = ChunkThreshold
    /\ callLog = <<0>>
    /\ output = <<rawEntry>>

\* the run entered splitAudioIntoChunks, which makes the chunks directory
UsedChunksDir == chunkPromise # "none"

\* C12: once a run that made the chunks directory has ended, normally or in the
\* catch of transcribeAudio, the directory and the files in it are gone
C12_ChunksDirRemovedOnEveryExit ==
    (pc \in {"done", "failed"} /\ UsedChunksDir) => (~dirExists /\ dirFiles = {})

\* the output holds an entry that reports a failed call
HasErrorEntry(entries) == \E k \in 1..Len(entries) : entries[k].kind = "ERROR"

\* C13: when the one call of the short branch has failed, the run has written an
\* error entry to the output instead of leaving no output
C13_SingleFailureWrittenAsEntry ==
    (callLog = <<0>> /\ failure = "transcribe") =>
        (outExists /\ HasErrorEntry(output))

\* a scan pass ended in 'error': the scan is over and no splitter was chosen
ScanFailed == UsedChunksDir /\ scanPass = "none" /\ strategyLog = <<>>

\* C14: when a silence-detection pass has emitted 'error', the chunking promise
\* is rejected, no segment extraction or time-based split was started, no
\* chunk file was written, no transcription call was made, no entry was
\* appended and the output file is as the run found it
C14_ScanFailureIsFatal ==
    ScanFailed =>
        /\ chunkPromise = "rejected"
        /\ pc \in {"awaitChunks", "failed", "killed"}
        /\ splitPoints = <<>>
        /\ segments = <<>>
        /\ running = {}
        /\ ~byTimeRunning
        /\ processedCount = 0
        /\ chunksAcc = <<>>
        /\ chunkValue = <<>>
        /\ callLog = <<>>
        /\ posted = {}
        /\ appendLog = <<>>
        /\ OutputUntouched

\* the second pass failed after it had reported silence onsets
C14_Witness ==
    /\ ScanFailed
    /\ silencePoints # <<>>
    /\ pc = "failed"
    /\ failure = "chunking"

----------------------------------------------------------------------------
(* Further properties of the planner, checked under PlannerSpec *)

----------------------------------------------------------------------------
(* Properties of the chunk list and of the output, checked under Spec *)

\* C16: in a chunk list of more than one chunk, produced by either splitter, the
\* final chunk alone has no end time (endTime null, shown as 'end'), and every
\* other chunk ends at a concrete time, where the next chunk starts
C16_OnlyFinalChunkOpenEnded ==
    (chunkPromise = "resolved" /\ Len(chunkValue) > 1) =>
        /\ chunkValue[Len(chunkValue)].endTime = Null
        /\ \A k \in 1..(Len(chunkValue) - 1) :
              /\ chunkValue[k].endTime # Null
              /\ chunkValue[k].endTime = chunkValue[k + 1].startTime

\* the positive multiples of chunkDuration below the audio's length
cutMultiples(chunkDuration, total) ==
    {m \in 1..(total - 1) : m % chunkDuration = 0}

\* C17: the chunk list of the time-based fallback starts at 0 and is cut exactly
\* at the positive multiples of the chunk duration that are less than the
\* audio's length, whatever chunk files the directory held before
C17_TimeFallbackCutsAtMultiples ==
    (chunkPromise = "resolved" /\ strategyLog = <<"time">>) =>
        /\ chunkValue # <<>>
        /\ chunkValue[1].startTime = 0
        /\ {chunkValue[k].startTime : k \in 2..Len(chunkValue)}
              = cutMultiples(DefaultChunkDuration, duration)

\* C18: no upload carries a file over the service's size limit: the file sent
\* is the file whose size the check accepted, within the limit
C18_NoOversizedUpload ==
    \A upload \in posted :
        /\ upload.sent <= MaxUploadBytes
        /\ upload.checked <= MaxUploadBytes

\* C19: whenever the loop has started the call for chunk i+1, the output file
\* already holds an entry for each of the chunks before it, also when an append
\* has failed
C19_EntriesPersistedBeforeNextCall ==
    (pc = "transcribing" /\ callLog # <<>>) =>
        \A k \in 1..(Len(callLog) - 1) :
            \E e \in 1..Len(output) : output[e].of = chunks[callLog[k]].path

----------------------------------------------------------------------------
(* The spacing of the planner's points, checked under PlannerSpec *)

\* the point before result[k]: the previous split point, or the start of the audio
behind(result, k) == IF k = 1 THEN 0 ELSE result[k - 1]

\* C20: for non-decreasing silence points and a positive target, the first split
\* point is at least 0.8 of the target and each later split point is at least
\* 0.8 of the target after the one before it
C20_SplitPointsWellSpaced ==
    (plDone /\ NonDecreasing(plSilence) /\ plTarget > 0) =>
        \A k \in 1..Len(plResult) :
            10 * (plResult[k] - behind(plResult, k)) >= 8 * plTarget

\* two split points exactly 0.8 of the target apart, a nearer onset passed over
C20_Witness ==
    /\ plDone
    /\ plTarget = DefaultChunkDuration
    /\ plSilence = <<12, 24, 48>>
    /\ plResult = <<24, 48>>

----------------------------------------------------------------------------
(* The target the pipeline plans with, checked under Spec *)

\* splitAtSilence has been called: the planner and splitByTime get its target
SplitAtSilenceCalled == UsedChunksDir /\ (scanPass = "pass2" \/ strategyLog # <<>>)

\* C21: when transcribeAudio chunks a long file, the target chunk duration that
\* reaches splitAtSilence, and from it the planner and splitByTime, is 60
C21_PlansWithSixtySeconds ==
    SplitAtSilenceCalled => targetDuration = SplitAtSilenceDefault

----------------------------------------------------------------------------
(* The forward scan of the planner, checked under PlannerSpec *)

\* the silence points that lie at least 0.8 of the target past the cursor, each
\* taken as the new cursor: a walk with no forward scan at all
RECURSIVE openingPoints(_, _, _, _, _)
openingPoints(points, i, cursor, target, acc) ==
    IF i > Len(points) THEN acc
    ELSE IF 10 * (points[i] - cursor) >= 8 * target
    THEN openingPoints(points, i + 1, points[i], target, Append(acc, points[i]))
    ELSE openingPoints(points, i + 1, cursor, target, acc)

\* C22: for non-decreasing silence points and a positive target, every split
\* point the planner returns is the first silence point at least 0.8 of the
\* target past the cursor: the forward scan never moves to a later point, and
\* the result is drawn from the silence points in their order
C22_ForwardScanStaysAtOpening ==
    (plDone /\ NonDecreasing(plSilence) /\ plTarget > 0) =>
        /\ plResult = openingPoints(plSilence, 1, 0, plTarget, <<>>)
        /\ Range(plResult) \subseteq Range(plSilence)
        /\ NonDecreasing(plResult)

\* a later point (30) lies in the preferred range, the opening point (24) is taken
C22_Witness ==
    /\ plDone
    /\ plTarget = DefaultChunkDuration
    /\ plSilence = <<24, 30>>
    /\ plResult = <<24>>

----------------------------------------------------------------------------
(* The promise of splitAtSpecificPoints, checked under Spec *)

\* the paths of a chunk list
chunkPaths(list) == {list[k].path : k \in 1..Len(list)}

\* C23: whatever order the segments' 'end' and 'error' events come in, the
\* promise of splitAtSpecificPoints resolves only when all K+1 extractions have
\* ended well, with K+1 chunks, one per segment; once an extraction has failed
\* the promise is rejected and stays so, with no chunk list, while the other
\* extractions run on; and it is pending only while an extraction still runs
C23_ExtractionPromiseSettlesConsistently ==
    strategyLog = <<"points">> =>
        /\ chunkPromise = "resolved" =>
              /\ ~ExtractFailed
              /\ running = {}
              /\ processedCount = Len(segments)
              /\ Len(chunkValue) = Len(splitPoints) + 1
              /\ chunkPaths(chunkValue) = 0..Len(splitPoints)
        /\ ExtractFailed => (chunkPromise = "rejected" /\ chunkValue = <<>>)
        /\ chunkPromise = "pending" => running # {}

\* one extraction failed, every other one has completed all the same
C23_Witness ==
    /\ strategyLog = <<"points">>
    /\ chunkPromise = "rejected"
    /\ running = {}
    /\ Len(segments) >= 3
    /\ processedCount = Len(segments) - 1
    /\ Len(chunksAcc) = processedCount
    /\ chunkValue = <<>>

----------------------------------------------------------------------------
(* The output file over a chunked run, checked under Spec *)

\* one step removes the output file: chunking has succeeded, nothing is appended yet
OutputRemoved ==
    /\ pc = "awaitChunks"
    /\ chunkPromise = "resolved"
    /\ appendLog = <<>>
    /\ output' = <<>>
    /\ ~outExists'

\* one step appends to the output file the entry the loop has just formed
OutputAppended ==
    /\ pc = "transcribing"
    /\ outExists'
    /\ Len(output') = Len(output) + 1
    /\ SubSeq(output', 1, Len(output)) = output
    /\ appendLog' # <<>>
    /\ output'[Len(output')] = appendLog'[Len(appendLog')]

\* every entry of the output was formed by this run's loop
OnlyThisRunsEntries == Range(output) \subseteq Range(appendLog)

\* C24: in a chunked run the output file changes in two ways only: it is removed
\* once, after the chunking promise has resolved and before the first append,
\* and from then on one entry at a time is appended; so a run whose chunking
\* fails never touches the previous output, the number of entries never goes
\* down after the removal, and a completed run's output holds this run's
\* entries only
C24_OutputRemovedThenAppendOnly ==
    /\ []((pc = "done" /\ UsedChunksDir) => OnlyThisRunsEntries)
    /\ [][UsedChunksDir =>
             \/ UNCHANGED <<output, outExists>>
             \/ OutputRemoved
             \/ OutputAppended]_vars

\* a completed chunked run with at least two entries, all of them its own
C24_Witness ==
    /\ pc = "done"
    /\ UsedChunksDir
    /\ Len(output) >= 2
    /\ output = appendLog

----------------------------------------------------------------------------
(* Termination, checked under LiveSpec *)

\* the positions 1 .. n in order
inOrder(n) == [k \in 1..n |-> k]

\* the run is over and, unless it was interrupted, no transcription call is pending
Settled == Terminal /\ (pc # "killed" => inflight = {})

\* C25: when every external operation eventually emits its end or error event,
\* the run reaches a terminal state with no transcription call in flight; a
\* chunked run that completes has called transcribeAudioFile once for each
\* chunk, in one pass over the list
C25_RunTerminates ==
    /\ <>Settled
    /\ []((pc = "done" /\ MultiChunk) => callLog = inOrder(Len(chunks)))

\* a chunked run that completed its one pass over three chunks or more
C25_Witness ==
    /\ pc = "done"
    /\ Len(chunks) >= 3
    /\ callLog = inOrder(Len(chunks))
    /\ inflight = {}

====
